---------------------------- MODULE Spec2Model ----------------------------
(***************************************************************************)
(* A model of src/advanced-vector/vector.h: the class templates Vector<T>  *)
(* and RawMemory<T>.                                                       *)
(*                                                                         *)
(* The heap is a map from block addresses to the slots of the block; a     *)
(* slot holds Uninit (raw memory, no object), a value of T, or MovedFrom   *)
(* (a live object that was the source of a move).  Two named vectors, "a"  *)
(* and "b", and the local "tmp" of operator=(const Vector&) are objects    *)
(* with the fields buffer_, capacity_ (of the member data_) and size_.     *)
(* Every public member function is one action; the element type's          *)
(* constructors and assignments may throw, which an action's parameter k   *)
(* chooses (the k-th throwing-capable element operation of the call        *)
(* throws; 0: none).                                                       *)
(***************************************************************************)
EXTENDS Integers, Sequences, FiniteSets, TLC

\* ------------------------------------------------------------- bounds
\* The slots the vectors' blocks may have in all after a call, the largest
\* element value, and the calls of a counted run of PushBack and PopBack.
MaxSlots == 4
MaxVal == 2
MaxCalls == 7

Values == 1..MaxVal
\* The vectors of the program, and the local of copy assignment.
Vecs == {"a", "b"}
Objs == Vecs \cup {"tmp"}
\* Addresses: one block per vector, one for the block a call is building and one
\* for a block a call has lost.
Blocks == 1..(Cardinality(Vecs) + 2)

\* ------------------------------------------------------ slots and types
\* nullptr
Null == 0
\* Raw memory as operator new returns it: no object lives in the slot.
Uninit == 0
\* A live T that has been moved from.
MovedFrom == -1
\* The value of a value-initialized T, T().
DefaultValue == 1

VARIABLES
    heap,   \* heap[b]: the slots of block b, <<>> when b is not allocated
    vec,    \* vec[o]: [alive, buffer_, capacity_, size_] of vector object o
    T,      \* the element type's traits, fixed by the instantiation
    crashed,\* undefined behaviour has ended the process
    hist    \* of a run of PushBack and PopBack calls: how many of each have
            \* returned, and the values pushed and not popped, in push order

vars == <<heap, vec, T, crashed, hist>>

\* The element types: move construction is noexcept, or it may throw and the
\* type is copy constructible (the else branch of the if constexpr).
ElementTypes == {"NothrowMove", "CopyFallback"}

Live(x) == x # Uninit

Min(x, y) == IF x <= y THEN x ELSE y
Max(x, y) == IF x >= y THEN x ELSE y

\* ----------------------------------------------------------- the world
\* A call runs on a world w: the heap and the objects, the countdown t to the
\* element operation that throws, whether an exception is in flight, and the
\* record of what the call did (destructor calls on live objects, destructor
\* calls on slots holding no object, live objects overwritten or released
\* without a destructor call, blocks released, undefined behaviour met).
World(k) ==
    [heap |-> heap, vec |-> vec, t |-> k, threw |-> FALSE, ops |-> 0,
     dtor |-> 0, bad |-> 0, lost |-> 0, rel |-> {}, events |-> {}]

InBlock(w, b, o) == b \in Blocks /\ o >= 0 /\ o < Len(w.heap[b])

\* Whether this kind of element operation can throw for the element type.
CanThrow(kind) == kind # "move" \/ T = "CopyFallback"

\* The element operation about to run is the one that throws.
Throws(w, kind) == CanThrow(kind) /\ w.t = 1

\* An element operation that did not throw; ops counts the throwing-capable ones.
Tick(w, kind) ==
    IF CanThrow(kind)
    THEN [w EXCEPT !.t = IF @ > 0 THEN @ - 1 ELSE @, !.ops = @ + 1]
    ELSE w

\* Which element operation of a call throws: the k-th throwing-capable one
\* (0: none), of a call that runs w.ops of them when none throws.
ThrowAt(w) == 0..w.ops

Thrown(w) == [w EXCEPT !.threw = TRUE, !.t = 0]

Event(w, e) == [w EXCEPT !.events = @ \cup {e}]

\* The value an element operation reads from slot o of block b: the object
\* there, or, when none lives there (or the slot is outside the block), the
\* indeterminate bits g.
ReadVal(w, b, o, g) ==
    IF InBlock(w, b, o) /\ Live(w.heap[b][o + 1]) THEN w.heap[b][o + 1] ELSE g

ReadsDead(w, b, o) == ~(InBlock(w, b, o) /\ Live(w.heap[b][o + 1]))

\* new (p) T(x): an object is created in the slot; one that lived there is
\* gone without its destructor having run.
ConstructAt(w, b, o, x) ==
    IF ~InBlock(w, b, o) THEN Event(w, "oob_write")
    ELSE [w EXCEPT !.heap[b][o + 1] = x,
                   !.lost = @ + (IF Live(w.heap[b][o + 1]) THEN 1 ELSE 0)]

\* p->~T(), std::destroy_at(p)
DestroyAt(w, b, o) ==
    IF ~InBlock(w, b, o) THEN Event([w EXCEPT !.bad = @ + 1], "oob_write")
    ELSE IF Live(w.heap[b][o + 1])
         THEN [w EXCEPT !.heap[b][o + 1] = Uninit, !.dtor = @ + 1]
         ELSE [w EXCEPT !.bad = @ + 1]

\* *p = x: assignment to the object in the slot.
AssignAt(w, b, o, x) ==
    IF ~InBlock(w, b, o) THEN Event(w, "oob_write")
    ELSE IF Live(w.heap[b][o + 1])
         THEN [w EXCEPT !.heap[b][o + 1] = x]
         ELSE Event([w EXCEPT !.heap[b][o + 1] = x], "assign_dead")

\* The source of a move is left moved-from (bits that were no object stay so).
MoveOut(w, b, o) ==
    IF ~InBlock(w, b, o) THEN Event(w, "oob_write")
    ELSE IF Live(w.heap[b][o + 1]) THEN [w EXCEPT !.heap[b][o + 1] = MovedFrom]
         ELSE w

\* An element operation reads slot o of block b.
Reading(w, b, o) ==
    IF ~InBlock(w, b, o) THEN Event(w, "oob_read")
    ELSE IF ~Live(w.heap[b][o + 1]) THEN Event(w, "read_dead")
    ELSE w

\* A destroy_n that runs no destructor.
destroy_none(w, b, o, n) == w

\* std::destroy_n(b + o, n)
RECURSIVE destroy_n(_, _, _, _)
destroy_n(w, b, o, n) ==
    IF n <= 0 THEN w ELSE destroy_n(DestroyAt(w, b, o), b, o + 1, n - 1)


\* std::uninitialized_copy_n(sb + so, n, db + do): copy-constructs in order; when
\* a constructor throws, the objects already constructed are destroyed.
RECURSIVE UninitCopyFrom(_, _, _, _, _, _, _, _)
UninitCopyFrom(w, sb, so, n, db, do, j, g) ==
    IF j >= n THEN w
    ELSE IF Throws(w, "copy") THEN destroy_n(Thrown(w), db, do, j)
    ELSE UninitCopyFrom(
             ConstructAt(Tick(Reading(w, sb, so + j), "copy"), db, do + j,
                         ReadVal(w, sb, so + j, g)),
             sb, so, n, db, do, j + 1, g)

uninitialized_copy_n(w, sb, so, n, db, do, g) ==
    UninitCopyFrom(w, sb, so, n, db, do, 0, g)

\* std::uninitialized_move_n(sb + so, n, db + do): as above by move construction.
RECURSIVE UninitMoveFrom(_, _, _, _, _, _, _, _)
UninitMoveFrom(w, sb, so, n, db, do, j, g) ==
    IF j >= n THEN w
    ELSE IF Throws(w, "move") THEN destroy_n(Thrown(w), db, do, j)
    ELSE UninitMoveFrom(
             MoveOut(ConstructAt(Tick(Reading(w, sb, so + j), "move"), db, do + j,
                                 ReadVal(w, sb, so + j, g)),
                     sb, so + j),
             sb, so, n, db, do, j + 1, g)

uninitialized_move_n(w, sb, so, n, db, do, g) ==
    UninitMoveFrom(w, sb, so, n, db, do, 0, g)

\* std::uninitialized_value_construct_n(b + o, n)
RECURSIVE UninitValueFrom(_, _, _, _, _)
UninitValueFrom(w, b, o, n, j) ==
    IF j >= n THEN w
    ELSE IF Throws(w, "default") THEN destroy_n(Thrown(w), b, o, j)
    ELSE UninitValueFrom(ConstructAt(Tick(w, "default"), b, o + j, DefaultValue),
                         b, o, n, j + 1)

\* A value construction that constructs nothing.
value_construct_none(w, b, o, n) == w

uninitialized_value_construct_n(w, b, o, n) == UninitValueFrom(w, b, o, n, 0)

\* std::copy_n(sb + so, n, db + do): copy-assigns in order; an assignment that
\* throws leaves the ones before it done.
RECURSIVE copy_n(_, _, _, _, _, _, _)
copy_n(w, sb, so, n, db, do, g) ==
    IF n <= 0 THEN w
    ELSE IF Throws(w, "copy") THEN Thrown(w)
    ELSE copy_n(AssignAt(Tick(Reading(w, sb, so), "copy"), db, do,
                         ReadVal(w, sb, so, g)),
                sb, so + 1, n - 1, db, do + 1, g)

\* The loop of std::move_backward(b + first, b + last, b + dlast):
\* while (first != last) *--dlast = std::move(*--last).
RECURSIVE MoveBackwardLoop(_, _, _, _, _, _)
MoveBackwardLoop(w, b, first, lst, dlast, g) ==
    IF lst <= first THEN w
    ELSE IF Throws(w, "move") THEN Thrown(w)
    ELSE MoveBackwardLoop(
             MoveOut(AssignAt(Tick(Reading(w, b, lst - 1), "move"), b, dlast - 1,
                              ReadVal(w, b, lst - 1, g)),
                     b, lst - 1),
             b, first, lst - 1, dlast - 1, g)

\* std::move_backward: [first, last) must be a range; called with first > last
\* the behaviour is undefined (here: the counting loop, which runs no iteration;
\* the call's other outcome is taken at the caller).
move_backward(w, b, first, lst, dlast, g) ==
    IF first > lst THEN Event(w, "bad_range")
    ELSE MoveBackwardLoop(w, b, first, lst, dlast, g)

\* std::move(b + first, b + last, b + dfirst): move-assigns forward.
RECURSIVE move(_, _, _, _, _, _)
move(w, b, first, lst, dfirst, g) ==
    IF first >= lst THEN w
    ELSE IF Throws(w, "move") THEN Thrown(w)
    ELSE move(MoveOut(AssignAt(Tick(Reading(w, b, first), "move"), b, dfirst,
                               ReadVal(w, b, first, g)),
                      b, first),
              b, first + 1, lst, dfirst + 1, g)

\* ----------------------------------------------------------- RawMemory
FreeBlocks(w) == {b \in Blocks : w.heap[b] = <<>>}

\* The address Allocate(n) returns: nullptr for n = 0, else a block not in use.
NewAddress(w, n) ==
    IF n = 0 THEN Null
    ELSE CHOOSE b \in FreeBlocks(w) : \A c \in FreeBlocks(w) : b <= c

\* RawMemory::Allocate(n), the block being the one NewAddress(w, n) names.
Allocate(w, n) ==
    IF n = 0 THEN w
    ELSE [w EXCEPT !.heap[NewAddress(w, n)] = [i \in 1..n |-> Uninit]]

LiveIn(slots) == Cardinality({i \in 1..Len(slots) : Live(slots[i])})

\* RawMemory::Deallocate(buf): operator delete; it runs no destructor, so the
\* objects still living in the block are lost.
Deallocate(w, b) ==
    IF b = Null THEN w
    ELSE IF w.heap[b] = <<>> THEN Event(w, "double_free")
    ELSE [w EXCEPT !.heap[b] = <<>>, !.rel = @ \cup {b},
                   !.lost = @ + LiveIn(w.heap[b])]

\* RawMemory::Swap
RawSwap(w, x, y) ==
    [w EXCEPT !.vec[x].buffer_ = w.vec[y].buffer_,
              !.vec[x].capacity_ = w.vec[y].capacity_,
              !.vec[y].buffer_ = w.vec[x].buffer_,
              !.vec[y].capacity_ = w.vec[x].capacity_]

\* RawMemory::operator=(RawMemory&&) on the data_ members of x and y: the fields
\* are exchanged with nullptr and 0; the block x held is not released.
RawMoveAssign(w, x, y) ==
    IF x = y THEN w
    ELSE [w EXCEPT !.vec[x].buffer_ = w.vec[y].buffer_,
                   !.vec[y].buffer_ = Null,
                   !.vec[x].capacity_ = w.vec[y].capacity_,
                   !.vec[y].capacity_ = 0]


\* -------------------------------------------------------------- Vector
Buf(w, v) == w.vec[v].buffer_
Cap(w, v) == w.vec[v].capacity_
Size(w, v) == w.vec[v].size_

\* No object: before construction, after destruction.
NoVector == [alive |-> FALSE, buffer_ |-> Null, capacity_ |-> 0, size_ |-> 0]

\* The members as their default initializers leave them: data_ {nullptr, 0},
\* size_ 0.
EmptyVector == [alive |-> TRUE, buffer_ |-> Null, capacity_ |-> 0, size_ |-> 0]

\* Vector() = default
VectorDefault(w, v) == [w EXCEPT !.vec[v] = EmptyVector]

\* A Vector(size_t) that keeps what it built when a constructor throws.
VectorOfSizeKeeps(w, v, n) ==
    uninitialized_value_construct_n(
        [Allocate(w, n) EXCEPT
            !.vec[v] = [alive |-> TRUE, buffer_ |-> NewAddress(w, n),
                        capacity_ |-> n, size_ |-> n]],
        NewAddress(w, n), 0, n)

\* explicit Vector(size_t size): when a constructor throws, the member data_ is
\* destroyed and no vector exists.
VectorOfSize(w, v, n) ==
    LET nb == NewAddress(w, n)
        w1 == [Allocate(w, n) EXCEPT
                  !.vec[v] = [alive |-> TRUE, buffer_ |-> nb, capacity_ |-> n,
                              size_ |-> n]]
        w2 == uninitialized_value_construct_n(w1, nb, 0, n)
    IN  IF w2.threw THEN [Deallocate(w2, nb) EXCEPT !.vec[v] = NoVector] ELSE w2

\* A copy that takes the source's block instead of copying into one of its own.
VectorCopyShallow(w, v, o, g) == [w EXCEPT !.vec[v] = w.vec[o]]

\* Vector(const Vector& other)
VectorCopy(w, v, o, g) ==
    LET n  == Size(w, o)
        nb == NewAddress(w, n)
        w1 == [Allocate(w, n) EXCEPT
                  !.vec[v] = [alive |-> TRUE, buffer_ |-> nb, capacity_ |-> n,
                              size_ |-> n]]
        w2 == uninitialized_copy_n(w1, Buf(w, o), 0, n, nb, 0, g)
    IN  IF w2.threw THEN [Deallocate(w2, nb) EXCEPT !.vec[v] = NoVector] ELSE w2

\* Vector(Vector&& other): data_ starts {nullptr, 0} and is swapped with
\* other.data_; size_ is exchanged with 0.
VectorMove(w, v, o) ==
    LET w1 == [w EXCEPT !.vec[v] = EmptyVector]
        w2 == RawSwap(w1, v, o)
    IN  [w2 EXCEPT !.vec[v].size_ = Size(w, o), !.vec[o].size_ = 0]

\* ~Vector(), then ~RawMemory() of data_
VectorDtor(w, v) ==
    LET w1 == destroy_n(w, Buf(w, v), 0, Size(w, v))
    IN  [Deallocate(w1, Buf(w, v)) EXCEPT !.vec[v] = NoVector]

\* Vector::Swap
Swap(w, v, o) ==
    LET w1 == RawSwap(w, v, o)
    IN  [w1 EXCEPT !.vec[v].size_ = Size(w, o), !.vec[o].size_ = Size(w, v)]

\* The in-place branch of operator=(const Vector&), lines 48-55.
CopyAssignInPlace(w, v, r, g) ==
    LET w1 == IF Size(w, r) < Size(w, v)
              THEN LET c == copy_n(w, Buf(w, r), 0, Size(w, r), Buf(w, v), 0, g)
                   IN  IF c.threw THEN c
                       ELSE destroy_n(c, Buf(w, v), Size(w, r),
                                      Size(w, v) - Size(w, r))
              ELSE LET c == copy_n(w, Buf(w, r), 0, Size(w, v), Buf(w, v), 0, g)
                   IN  IF c.threw THEN c
                       ELSE uninitialized_copy_n(c, Buf(w, r), 0,
                                                 Size(w, r) - Size(w, v),
                                                 Buf(w, v), 0, g)
    IN  IF w1.threw THEN w1 ELSE [w1 EXCEPT !.vec[v].size_ = Size(w, r)]

\* Vector& operator=(const Vector& rhs)
CopyAssign(w, v, r, g) ==
    IF v = r THEN w
    ELSE IF Size(w, r) > Cap(w, v)
    THEN LET w1 == VectorCopy(w, "tmp", r, g)
         IN  IF w1.threw THEN w1 ELSE VectorDtor(Swap(w1, v, "tmp"), "tmp")
    ELSE CopyAssignInPlace(w, v, r, g)

\* A move assignment that exchanges the two vectors.
MoveAssignBySwap(w, v, r) == Swap(w, v, r)

\* Vector& operator=(Vector&& rhs)
MoveAssign(w, v, r) ==
    IF v = r THEN w
    ELSE LET w1 == RawMoveAssign(w, v, r)
         IN  [w1 EXCEPT !.vec[v].size_ = Size(w, r), !.vec[r].size_ = 0]

\* std::is_nothrow_move_constructible_v<T> || !std::is_copy_constructible_v<T>
MoveIfNoexcept == T = "NothrowMove"

\* A relocation that constructs nothing in the new block.
MigrateNothing(w, sb, so, n, db, do, g) == w

\* The elements [so, so + n) of v's block into block db at do: by move or by copy
\* as the if constexpr chooses.
Migrate(w, sb, so, n, db, do, g) ==
    IF MoveIfNoexcept THEN uninitialized_move_n(w, sb, so, n, db, do, g)
    ELSE uninitialized_copy_n(w, sb, so, n, db, do, g)

\* A Reserve that allocates nothing.
ReserveNothing(w, v, n, g) == w

\* void Reserve(size_t new_capacity)
Reserve(w, v, n, g) ==
    IF n <= Cap(w, v) THEN w
    ELSE LET nb == NewAddress(w, n)
             w1 == Allocate(w, n)
             w2 == Migrate(w1, Buf(w, v), 0, Size(w, v), nb, 0, g)
         IN  IF w2.threw THEN Deallocate(w2, nb)
             ELSE LET w3 == destroy_n(w2, Buf(w, v), 0, Size(w, v))
                  IN  Deallocate([w3 EXCEPT !.vec[v].buffer_ = nb,
                                            !.vec[v].capacity_ = n],
                                 Buf(w, v))

\* A Resize that sets the size before it constructs.
ResizeSizeFirst(w, v, n, g) ==
    IF Size(w, v) > n
    THEN [destroy_n(w, Buf(w, v), n, Size(w, v) - n) EXCEPT !.vec[v].size_ = n]
    ELSE IF Reserve(w, v, n, g).threw THEN Reserve(w, v, n, g)
    ELSE uninitialized_value_construct_n(
             [Reserve(w, v, n, g) EXCEPT !.vec[v].size_ = n],
             Buf(Reserve(w, v, n, g), v), Size(w, v), n - Size(w, v))

\* A Resize that sets the size without reserving or constructing.
ResizeSizeOnly(w, v, n, g) == [w EXCEPT !.vec[v].size_ = n]

\* void Resize(size_t new_size)
Resize(w, v, n, g) ==
    LET w1 == IF Size(w, v) > n
              THEN destroy_n(w, Buf(w, v), n, Size(w, v) - n)
              ELSE LET r == Reserve(w, v, n, g)
                   IN  IF r.threw THEN r
                       ELSE uninitialized_value_construct_n(
                                r, Buf(r, v), Size(r, v), n - Size(r, v))
    IN  IF w1.threw THEN w1 ELSE [w1 EXCEPT !.vec[v].size_ = n]

\* void PopBack()
PopBack(w, v) ==
    [DestroyAt(w, Buf(w, v), Size(w, v) - 1) EXCEPT !.vec[v].size_ = @ - 1]

\* A construction whose exception leaves the slot holding an object.
ConstructThenThrow(w, b, o, x) ==
    IF Throws(w, "args") THEN Thrown(ConstructAt(w, b, o, x))
    ELSE ConstructAt(Tick(w, "args"), b, o, x)

\* new (p) T(std::forward<Args>(args)...)
ConstructNew(w, b, o, x) ==
    IF Throws(w, "args") THEN Thrown(w) ELSE ConstructAt(Tick(w, "args"), b, o, x)

\* A growth by one slot.
GrownByOne(n) == n + 1

\* size_t new_size = (size_ != 0) ? size_ * 2 : 1
GrownCapacity(n) == IF n # 0 THEN n * 2 ELSE 1

\* T& EmplaceBack(Args&&... args)
EmplaceBack(w, v, x, g) ==
    IF Size(w, v) = Cap(w, v)
    THEN LET ns == GrownCapacity(Size(w, v))
             nb == NewAddress(w, ns)
             w1 == Allocate(w, ns)
             w2 == ConstructNew(w1, nb, Size(w, v), x)
             w3 == IF w2.threw THEN w2
                   ELSE Migrate(w2, Buf(w, v), 0, Size(w, v), nb, 0, g)
         IN  IF w3.threw THEN Deallocate(w3, nb)
             ELSE LET w4 == destroy_n(w3, Buf(w, v), 0, Size(w, v))
                  IN  Deallocate([w4 EXCEPT !.vec[v].buffer_ = nb,
                                            !.vec[v].capacity_ = ns,
                                            !.vec[v].size_ = @ + 1],
                                 Buf(w, v))
    ELSE LET w2 == ConstructNew(w, Buf(w, v), Size(w, v), x)
         IN  IF w2.threw THEN w2 ELSE [w2 EXCEPT !.vec[v].size_ = @ + 1]

\* The holding cell of Emplace is raw operator new memory with no owner: an
\* exception leaves it allocated, and the object in it undestroyed.
AbandonCell(w) == Event([w EXCEPT !.lost = @ + 1], "cell_leak")

\* The branch size_ < Capacity() of Emplace, lines 189-195.
EmplaceInPlace(w, v, idx, x, g) ==
    LET b  == Buf(w, v)
        n  == Size(w, v)
        \* T* tmp = new (buf) T(args...)
        w1 == IF Throws(w, "args") THEN Event(Thrown(w), "cell_leak")
              ELSE Tick(w, "args")
        \* new (end()) T(std::forward<T>(*(end() - 1)))
        w2 == IF w1.threw THEN w1
              ELSE IF Throws(w1, "move") THEN AbandonCell(Thrown(w1))
              ELSE MoveOut(ConstructAt(Tick(Reading(w1, b, n - 1), "move"), b, n,
                                       ReadVal(w1, b, n - 1, g)),
                           b, n - 1)
        \* std::move_backward(begin() + idx, end() - 1, end())
        w3 == IF w2.threw THEN w2
              ELSE LET m == move_backward(w2, b, idx, n - 1, n, g)
                   IN  IF m.threw THEN AbandonCell(m) ELSE m
        \* data_[idx] = std::forward<T>(*tmp)
        w4 == IF w3.threw THEN w3
              ELSE IF Throws(w3, "move") THEN AbandonCell(Thrown(w3))
              ELSE AssignAt(Tick(w3, "move"), b, idx, x)
    \* tmp->~T(); operator delete(buf); ++size_
    IN  IF w4.threw THEN w4
        ELSE [w4 EXCEPT !.dtor = @ + 1, !.vec[v].size_ = @ + 1]

\* A reallocating Emplace without the catch block.
EmplaceReallocNoCatch(w, v, idx, x, g) ==
    LET b  == Buf(w, v)
        n  == Size(w, v)
        ns == GrownCapacity(n)
        nb == NewAddress(w, ns)
        w2 == ConstructNew(Allocate(w, ns), nb, idx, x)
        w3 == IF w2.threw THEN w2 ELSE Migrate(w2, b, 0, idx, nb, 0, g)
        w4 == IF w3.threw THEN w3 ELSE Migrate(w3, b, idx, n - idx, nb, idx + 1, g)
    IN  IF w4.threw THEN Deallocate(w4, nb)
        ELSE Deallocate([destroy_n(w4, b, 0, n) EXCEPT !.vec[v].buffer_ = nb,
                                                       !.vec[v].capacity_ = ns,
                                                       !.vec[v].size_ = @ + 1],
                        b)

\* The branch size_ == Capacity() of Emplace, lines 197-213.
EmplaceRealloc(w, v, idx, x, g) ==
    LET b  == Buf(w, v)
        n  == Size(w, v)
        ns == GrownCapacity(n)
        nb == NewAddress(w, ns)
        w1 == Allocate(w, ns)
        w2 == ConstructNew(w1, nb, idx, x)
        w3 == IF w2.threw THEN w2 ELSE Migrate(w2, b, 0, idx, nb, 0, g)
        w4 == IF w3.threw THEN w3 ELSE Migrate(w3, b, idx, n - idx, nb, idx + 1, g)
        \* catch (...) { std::destroy_n(new_data.GetAddress() + idx, 1); throw; }
        w5 == IF w4.threw /\ ~w2.threw /\ ~MoveIfNoexcept
              THEN DestroyAt(w4, nb, idx) ELSE w4
    IN  IF w5.threw THEN Deallocate(w5, nb)
        ELSE LET w6 == destroy_n(w5, b, 0, n)
             IN  Deallocate([w6 EXCEPT !.vec[v].buffer_ = nb,
                                       !.vec[v].capacity_ = ns,
                                       !.vec[v].size_ = @ + 1],
                            b)

\* iterator Emplace(const_iterator pos, Args&&... args), idx = pos - begin()
Emplace(w, v, idx, x, g) ==
    IF Size(w, v) < Cap(w, v) THEN EmplaceInPlace(w, v, idx, x, g)
    ELSE IF Size(w, v) = Cap(w, v) THEN EmplaceRealloc(w, v, idx, x, g)
    ELSE [w EXCEPT !.vec[v].size_ = @ + 1]

\* An Erase that drops the last element whatever the position.
EraseLast(w, v, idx, g) == PopBack(w, v)

\* iterator Erase(const_iterator pos), idx = pos - begin()
Erase(w, v, idx, g) ==
    LET w1 == move(w, Buf(w, v), idx + 1, Size(w, v), idx, g)
    IN  IF w1.threw THEN w1 ELSE PopBack(w1, v)

\* ------------------------------------------------------------ the calls
\* A pointer into a block.
Ptr(b, o) == [blk |-> b, off |-> o]

\* Blocks that are allocated and that no object's data_ holds: leaked.
Orphans(w) ==
    {b \in Blocks : w.heap[b] # <<>> /\ \A o \in Objs : w.vec[o].buffer_ # b}

\* The objects living in leaked blocks.
OrphanObjects(w) ==
    LET RECURSIVE Sum(_)
        Sum(S) == IF S = {} THEN 0
                  ELSE LET b == CHOOSE c \in S : TRUE
                       IN  LiveIn(w.heap[b]) + Sum(S \ {b})
    IN  Sum(Orphans(w))

\* Addresses are compared within a call only. Between calls the heap is kept up
\* to a renaming of the addresses: the block of vector v is at Home(v), and the
\* other addresses are free. A leaked block is unreachable once the call has
\* returned, and is not kept.
Home(v) == IF v = "a" THEN 1 ELSE 2

Settled(w) ==
    [b \in Blocks |->
        IF \E v \in Vecs : Home(v) = b /\ w.vec[v].buffer_ # Null
        THEN LET v == CHOOSE u \in Vecs : Home(u) = b IN w.heap[w.vec[v].buffer_]
        ELSE <<>>]

SettledVec(w) ==
    [o \in Objs |->
        IF o \in Vecs /\ w.vec[o].buffer_ # Null
        THEN [w.vec[o] EXCEPT !.buffer_ = Home(o)]
        ELSE w.vec[o]]

\* The blocks of the vectors fit the model's bound.
Fits(w) ==
    LET RECURSIVE Sum(_)
        Sum(S) == IF S = {} THEN 0
                  ELSE LET o == CHOOSE c \in S : TRUE
                       IN  w.vec[o].capacity_ + Sum(S \ {o})
    IN  Sum(Vecs) <= MaxSlots

\* The undefined behaviour a call met: its events but the leak of Emplace's
\* holding cell, which loses memory and is defined.
Undefined(w) == w.events \ {"cell_leak"}

\* The call returns, or its exception propagates, with the world w; a call
\* that met undefined behaviour may instead have ended the process, after which
\* no call follows.
Return(w) ==
    /\ ~crashed
    /\ Fits(w)
    /\ \/ /\ heap' = Settled(w)
          /\ vec' = SettledVec(w)
          /\ UNCHANGED <<T, crashed>>
       \/ /\ Undefined(w) # {}
          /\ heap' = [b \in Blocks |-> <<>>]
          /\ vec' = [o \in Objs |-> NoVector]
          /\ crashed' = TRUE
          /\ UNCHANGED T

NoHist == [pushes |-> 0, pops |-> 0, vals |-> <<>>]

\* A call of the program at large.
Commit(w) == Return(w) /\ UNCHANGED hist

\* The indeterminate values a call on these objects may read: any, when a slot
\* it may read holds no object.
HasDead(o) ==
    \E i \in 0..(vec[o].size_ - 1) :
        ~(vec[o].buffer_ \in Blocks /\ i < Len(heap[vec[o].buffer_])
          /\ Live(heap[vec[o].buffer_][i + 1]))

Garbage(o) == IF HasDead(o) THEN Values ELSE {DefaultValue}

Init ==
    /\ heap = [b \in Blocks |-> <<>>]
    /\ vec = [o \in Objs |-> NoVector]
    /\ T \in ElementTypes
    /\ crashed = FALSE
    /\ hist = NoHist

DefaultConstruct(v) ==
    /\ ~vec[v].alive
    /\ Commit(VectorDefault(World(0), v))

SizeConstruct(v, n, k) ==
    /\ ~vec[v].alive
    /\ Commit(VectorOfSize(World(k), v, n))

CopyConstruct(v, o, k, g) ==
    /\ ~vec[v].alive /\ vec[o].alive
    /\ Commit(VectorCopy(World(k), v, o, g))

MoveConstruct(v, o) ==
    /\ ~vec[v].alive /\ vec[o].alive
    /\ Commit(VectorMove(World(0), v, o))

Destruct(v) ==
    /\ vec[v].alive
    /\ Commit(VectorDtor(World(0), v))

CopyAssignment(v, r, k, g) ==
    /\ vec[v].alive /\ vec[r].alive
    /\ Commit(CopyAssign(World(k), v, r, g))

MoveAssignment(v, r) ==
    /\ vec[v].alive /\ vec[r].alive
    /\ Commit(MoveAssign(World(0), v, r))

SwapCall(v, o) ==
    /\ vec[v].alive /\ vec[o].alive
    /\ Commit(Swap(World(0), v, o))

ReserveCall(v, n, k, g) ==
    /\ vec[v].alive
    /\ Commit(Reserve(World(k), v, n, g))

ResizeCall(v, n, k, g) ==
    /\ vec[v].alive
    /\ Commit(Resize(World(k), v, n, g))

\* void PushBack(const T&), void PushBack(T&&), T& EmplaceBack(args)
PushBack(v, x, k, g) ==
    /\ vec[v].alive
    /\ Commit(EmplaceBack(World(k), v, x, g))

\* The reference EmplaceBack returns: *ptr, the slot it constructed.
EmplaceBackReturn(w, v) == Ptr(Buf(w, v), Size(w, v) - 1)

PopBackCall(v) ==
    /\ vec[v].alive /\ vec[v].size_ > 0
    /\ Commit(PopBack(World(0), v))

\* iterator Insert(const_iterator pos, const T&), Insert(pos, T&&), Emplace(pos, args)
Insert(v, idx, x, k, g) ==
    /\ vec[v].alive
    /\ Commit(Emplace(World(k), v, idx, x, g))

\* The iterator Emplace and Erase return: begin() + idx.
IteratorReturn(w, v, idx) == Ptr(Buf(w, v), idx)

EraseCall(v, idx, k, g) ==
    /\ vec[v].alive
    /\ Commit(Erase(World(k), v, idx, g))

\* The arguments of the calls: the sizes and positions the bound allows, the
\* element operation that throws, the indeterminate value a read may meet.
Sizes == 0..MaxSlots
Positions(v) == 0..vec[v].size_
ErasePositions(v) == 0..(vec[v].size_ - 1)
InsertGarbage(v) ==
    IF vec[v].size_ = 0 /\ vec[v].capacity_ > 0 THEN Values ELSE Garbage(v)

Next ==
    \/ \E v \in Vecs : DefaultConstruct(v)
    \/ \E v \in Vecs, n \in Sizes :
           \E k \in ThrowAt(VectorOfSize(World(0), v, n)) :
               SizeConstruct(v, n, k)
    \/ \E v \in Vecs : \E o \in Vecs \ {v} : \E g \in Garbage(o) :
           \E k \in ThrowAt(VectorCopy(World(0), v, o, g)) :
               CopyConstruct(v, o, k, g)
    \/ \E v \in Vecs : \E o \in Vecs \ {v} : MoveConstruct(v, o)
    \/ \E v \in Vecs, r \in Vecs : \E g \in Garbage(r) :
           \E k \in ThrowAt(CopyAssign(World(0), v, r, g)) :
               CopyAssignment(v, r, k, g)
    \/ \E v \in Vecs : Destruct(v)
    \/ \E v \in Vecs, r \in Vecs : MoveAssignment(v, r)
    \/ \E v \in Vecs, o \in Vecs : SwapCall(v, o)
    \/ \E v \in Vecs, n \in Sizes : \E g \in Garbage(v) :
           \E k \in ThrowAt(Reserve(World(0), v, n, g)) :
               ReserveCall(v, n, k, g)
    \/ \E v \in Vecs, n \in Sizes : \E g \in Garbage(v) :
           \E k \in ThrowAt(Resize(World(0), v, n, g)) :
               ResizeCall(v, n, k, g)
    \/ \E v \in Vecs, x \in Values : \E g \in Garbage(v) :
           \E k \in ThrowAt(EmplaceBack(World(0), v, x, g)) :
               PushBack(v, x, k, g)
    \/ \E v \in Vecs : PopBackCall(v)
    \/ \E v \in Vecs, x \in Values :
           \E idx \in Positions(v), g \in InsertGarbage(v) :
               \E k \in ThrowAt(Emplace(World(0), v, idx, x, g)) :
                   Insert(v, idx, x, k, g)
    \/ \E v \in Vecs : \E idx \in ErasePositions(v), g \in Garbage(v) :
           \E k \in ThrowAt(Erase(World(0), v, idx, g)) :
               EraseCall(v, idx, k, g)

Spec == Init /\ [][Next]_vars

\* The program instantiated with an element type whose move constructor is
\* noexcept.
InitNothrowMove == Init /\ T = "NothrowMove"
SpecNothrowMove == InitNothrowMove /\ [][Next]_vars

\* A run of PushBack and PopBack calls on one vector, from the empty vector
\* Vector() constructs, with the calls that returned counted.
InitPushPop ==
    /\ heap = [b \in Blocks |-> <<>>]
    /\ vec = [o \in Objs |-> IF o = "a" THEN EmptyVector ELSE NoVector]
    /\ T \in ElementTypes
    /\ crashed = FALSE
    /\ hist = NoHist

CountedPushBack(x, k) ==
    /\ hist.pushes + hist.pops < MaxCalls
    /\ LET w == EmplaceBack(World(k), "a", x, DefaultValue)
       IN  /\ Return(w)
           /\ hist' = IF w.threw \/ crashed' THEN hist
                      ELSE [hist EXCEPT !.pushes = @ + 1, !.vals = Append(@, x)]

CountedPopBack ==
    /\ hist.pushes + hist.pops < MaxCalls
    /\ vec["a"].size_ > 0
    /\ Return(PopBack(World(0), "a"))
    /\ hist' = [hist EXCEPT !.pops = @ + 1,
                            !.vals = SubSeq(@, 1, Len(@) - 1)]

NextPushPop ==
    \/ \E x \in Values : \E k \in ThrowAt(EmplaceBack(World(0), "a", x, DefaultValue)) :
           CountedPushBack(x, k)
    \/ CountedPopBack

SpecPushPop == InitPushPop /\ [][NextPushPop]_vars

\* ------------------------------------------------------------ reading
\* The state as the world a call starts in.
Now == World(0)

\* Slot i of v's block, and what operator[](i) yields when the read meets the
\* indeterminate bits g.
At(w, v, i) == w.heap[Buf(w, v)][i + 1]
Elem(w, v, i, g) == ReadVal(w, Buf(w, v), i, g)

\* The elements of v as indexing yields them.
Elems(w, v, g) == [i \in 1..Size(w, v) |-> Elem(w, v, i - 1, g)]

\* v holds a block of capacity_ slots of which exactly the first size_ hold
\* objects.
WellFormed(w, v) ==
    /\ w.vec[v].alive
    /\ Size(w, v) <= Cap(w, v)
    /\ (Buf(w, v) = Null) = (Cap(w, v) = 0)
    /\ Buf(w, v) # Null =>
          /\ Len(w.heap[Buf(w, v)]) = Cap(w, v)
          /\ \A i \in 0..(Cap(w, v) - 1) : Live(At(w, v, i)) = (i < Size(w, v))

\* Object o is as it was before the call: its fields, and its block's slots.
Untouched(w, o) ==
    /\ w.vec[o] = vec[o]
    /\ vec[o].buffer_ # Null => w.heap[vec[o].buffer_] = heap[vec[o].buffer_]

\* ------------------------------------------------------------- claims

\* C1: in every state any sequence of calls reaches, calls that ended by an
\* element constructor throwing included, Size() <= Capacity() of every vector.
C1_SizeWithinCapacity ==
    \A v \in Vecs : vec[v].alive => vec[v].size_ <= vec[v].capacity_

\* A full vector, and a throwing call behind it: the other vector does not exist
\* because its construction threw or has not run.
C1_Witness ==
    \E v \in Vecs :
        /\ vec[v].alive /\ vec[v].size_ = vec[v].capacity_ /\ vec[v].size_ >= 2
        /\ \E k \in 1..2 : LET w == EmplaceBack(World(k), v, 1, 1)
                           IN  w.threw /\ Size(w, v) <= Cap(w, v)

\* C2: exactly the slots [0, size) of a vector's block hold objects, and the
\* destructor destroys exactly those size objects: no object is left
\* undestroyed and no destructor runs on a slot that holds none.
C2_LiveSlotsExactly ==
    \A v \in Vecs : vec[v].alive =>
        /\ WellFormed(Now, v)
        /\ LET w == VectorDtor(Now, v)
           IN  w.dtor = vec[v].size_ /\ w.bad = 0 /\ w.lost = 0

\* C3: a = b with b.size <= a.capacity and no exception: afterwards a.size = b.size
\* and a[i] = b[i] for every i < b.size, the slots [0, b.size) of a and no others
\* hold objects, and b is unchanged.
C3_CopyAssignInPlace ==
    \A a \in Vecs, b \in Vecs :
        (a # b /\ WellFormed(Now, a) /\ WellFormed(Now, b)
         /\ vec[b].size_ <= vec[a].capacity_) =>
            LET w == CopyAssign(Now, a, b, DefaultValue)
            IN  /\ Size(w, a) = vec[b].size_
                /\ \A i \in 0..(vec[b].size_ - 1) : At(w, a, i) = At(Now, b, i)
                /\ WellFormed(w, a)
                /\ Untouched(w, b)

\* C4: a = std::move(b) with a != b destroys every element a held, once each,
\* and releases a's block; a then has b's block, size and capacity, and b has
\* size 0 and capacity 0.
C4_MoveAssignReleases ==
    \A a \in Vecs, b \in Vecs :
        (a # b /\ WellFormed(Now, a) /\ WellFormed(Now, b)) =>
            LET w == MoveAssign(Now, a, b)
            IN  /\ w.dtor = vec[a].size_
                /\ w.lost = 0 /\ Orphans(w) = {}
                /\ vec[a].buffer_ # Null => vec[a].buffer_ \in w.rel
                /\ w.vec[a] = vec[b]
                /\ Size(w, b) = 0 /\ Cap(w, b) = 0

\* The sequence s with x inserted before position i (0-based).
InsertAt(s, i, x) == SubSeq(s, 1, i) \o <<x>> \o SubSeq(s, i + 1, Len(s))

\* The sequence s without the element at position i (0-based).
RemoveAt(s, i) == SubSeq(s, 1, i) \o SubSeq(s, i + 2, Len(s))

\* C5: Insert/Emplace of x at position i of a vector of n elements, 0 <= i <= n,
\* in place or reallocating: the result has size n + 1, the elements [0, i) and
\* [i + 1, n + 1) are the original [0, i) and [i, n), none moved from, x is at i,
\* and the iterator returned points at index i of the current block.
C5_InsertCorrect ==
    \A v \in Vecs : WellFormed(Now, v) =>
        \A i \in Positions(v), x \in Values, g \in InsertGarbage(v) :
            LET w == Emplace(Now, v, i, x, g)
            IN  /\ Size(w, v) = vec[v].size_ + 1
                /\ Size(w, v) <= Cap(w, v)
                /\ Elems(w, v, g) = InsertAt(Elems(Now, v, g), i, x)
                /\ IteratorReturn(w, v, i) = Ptr(Buf(w, v), i)
                /\ Buf(w, v) # Null

\* C6: Erase at position i of a vector of n elements, 0 <= i < n: the result has
\* size n - 1, the elements [0, i) unchanged and [i, n - 1) the original
\* [i + 1, n); one destructor call is made, which leaves the trailing slot n - 1
\* without an object; the capacity and the block are unchanged; the iterator
\* returned points at index i.
C6_EraseCorrect ==
    \A v \in Vecs : vec[v].alive =>
        \A i \in ErasePositions(v), g \in Garbage(v) :
            LET w == Erase(Now, v, i, g)
                n == vec[v].size_
            IN  /\ Size(w, v) = n - 1
                /\ Elems(w, v, g) = RemoveAt(Elems(Now, v, g), i)
                /\ w.dtor + w.bad = 1
                /\ ~Live(At(w, v, n - 1))
                /\ \A j \in n..(Cap(w, v) - 1) : At(w, v, j) = At(Now, v, j)
                /\ Cap(w, v) = vec[v].capacity_
                /\ Buf(w, v) = vec[v].buffer_
                /\ w.rel = {} /\ Orphans(w) = {}
                /\ IteratorReturn(w, v, i) = Ptr(vec[v].buffer_, i)

\* An erase in the middle of three distinct elements, which shifts one.
C6_Witness ==
    \E v \in Vecs :
        /\ WellFormed(Now, v)
        /\ Elems(Now, v, 1) = <<1, 2, 1>>
        /\ Elems(Erase(Now, v, 1, 1), v, 1) = <<1, 1>>
        /\ Elems(Erase(Now, v, 0, 1), v, 1) = <<2, 1>>


\* C7: after any run of PushBack and PopBack calls from an empty vector (PopBack
\* never on an empty one), Size() is the pushes minus the pops, and indexing
\* [0, Size()) yields the values pushed and not popped, in push order, whatever
\* reallocations the run went through.
C7_PushPopSequence ==
    ~crashed =>
        /\ vec["a"].size_ = hist.pushes - hist.pops
        /\ Elems(Now, "a", DefaultValue) = hist.vals
        /\ WellFormed(Now, "a")

\* Three pushes through the reallocations 0 -> 1 -> 2 -> 4, then a pop.
C7_Witness ==
    /\ hist.pushes = 3 /\ hist.pops = 1
    /\ hist.vals = <<2, 1>>
    /\ vec["a"].capacity_ = 4 /\ vec["a"].size_ = 2


\* Object o is in w2 as it is in w1: its fields, and its block's slots.
Same(w2, w1, o) ==
    /\ w2.vec[o] = w1.vec[o]
    /\ Buf(w1, o) # Null => w2.heap[Buf(w1, o)] = w1.heap[Buf(w1, o)]

\* The world w at the start of a further call in which the k-th throwing-capable
\* element operation throws.
Then(w, k) == [w EXCEPT !.t = k, !.threw = FALSE]

\* Every further call on v, those whose element operation throws included,
\* leaves the other vector u as it is in w.
LeavesAlone(w, v, u, g) ==
    /\ \A n \in Sizes, k \in 0..1 :
           /\ Same(Reserve(Then(w, k), v, n, g), w, u)
           /\ Same(Resize(Then(w, k), v, n, g), w, u)
    /\ \A x \in Values, k \in 0..2 :
           /\ Same(EmplaceBack(Then(w, k), v, x, g), w, u)
           /\ \A i \in 0..Size(w, v) :
                  Same(Emplace(Then(w, k), v, i, x, g), w, u)
    /\ \A i \in 0..(Size(w, v) - 1) : Same(Erase(Then(w, 0), v, i, g), w, u)
    /\ Size(w, v) > 0 => Same(PopBack(Then(w, 0), v), w, u)
    /\ \A k \in 0..1 : Same(CopyAssign(Then(w, k), v, u, g), w, u)
    /\ Same(VectorDtor(Then(w, 0), v), w, u)

\* C8: B(A) has B.size = A.size, B.capacity = A.size, B[i] = A[i] for i < A.size
\* and a block that is not A's; A is unchanged; and a later call on B leaves A's
\* size, capacity, block and elements as they are, and one on A those of B.
C8_CopyIsIndependent ==
    \A A \in Vecs, B \in Vecs :
        (A # B /\ vec[A].alive) =>
            /\ ~vec[B].alive =>
                  \A g \in Garbage(A) :
                      LET w == VectorCopy(Now, B, A, g)
                      IN  /\ w.vec[B].alive
                          /\ Size(w, B) = vec[A].size_
                          /\ Cap(w, B) = vec[A].size_
                          /\ Elems(w, B, g) = Elems(Now, A, g)
                          /\ Buf(w, B) # Null => Buf(w, B) # Buf(w, A)
                          /\ (Buf(w, B) = Null) = (vec[A].size_ = 0)
                          /\ Untouched(w, A)
                          /\ LeavesAlone(w, B, A, g)
                          /\ LeavesAlone(w, A, B, g)
            /\ vec[B].alive =>
                  \A g \in Garbage(B) : LeavesAlone(Now, B, A, g)

\* A copy of a vector of two distinct elements held in a larger block.
C8_Witness ==
    \E A \in Vecs, B \in Vecs :
        /\ A # B /\ WellFormed(Now, A) /\ ~vec[B].alive
        /\ Elems(Now, A, 1) = <<1, 2>> /\ vec[A].capacity_ = 4
        /\ LET w == VectorCopy(Now, B, A, 1)
           IN  /\ Elems(w, B, 1) = <<1, 2>> /\ Cap(w, B) = 2
               /\ Elems(EmplaceBack(w, B, 2, 1), A, 1) = <<1, 2>>

\* What moving A to B leaves: A empty with no block; B with A's block, size and
\* capacity; no slot of the heap constructed, assigned or destroyed; and A usable:
\* a PushBack on it succeeds and leaves B as it is.
Moved(w, A, B) ==
    /\ w.vec[A] = EmptyVector
    /\ w.vec[B] = vec[A]
    /\ w.heap = heap
    /\ w.ops = 0 /\ w.dtor = 0 /\ w.bad = 0
    /\ \A x \in Values :
           LET w2 == EmplaceBack(Then(w, 0), A, x, DefaultValue)
           IN  /\ ~w2.threw
               /\ Elems(w2, A, DefaultValue) = <<x>>
               /\ Buf(w2, A) # Buf(w2, B)
               /\ Same(w2, w, B)

\* C9: moving from A to B, by move construction or by move assignment to a
\* distinct B, leaves A with size 0 and no block, and B with A's block and A's
\* elements in their order, none constructed or destroyed; A stays usable.
C9_MoveTransfers ==
    \A A \in Vecs, B \in Vecs :
        (A # B /\ vec[A].alive) =>
            IF vec[B].alive THEN Moved(MoveAssign(Now, B, A), A, B)
            ELSE Moved(VectorMove(Now, B, A), A, B)

\* A move assignment from a vector of two elements to one that holds an element.
C9_Witness ==
    \E A \in Vecs, B \in Vecs :
        /\ A # B /\ WellFormed(Now, A) /\ WellFormed(Now, B)
        /\ Elems(Now, A, 1) = <<2, 1>> /\ vec[B].size_ = 1
        /\ LET w == MoveAssign(Now, B, A)
           IN  Elems(w, B, 1) = <<2, 1>> /\ Size(w, A) = 0 /\ Buf(w, A) = Null

\* The pushes of the values xs, one call each, onto v, which has room for them:
\* every call leaves the block address and the capacity as they are, touches no
\* slot but the one it constructs, releases nothing and destroys nothing; a call
\* whose constructor throws leaves everything as it is.
PushStays(w, w2, wt, v, x) ==
    /\ Buf(w2, v) = Buf(w, v)
    /\ Cap(w2, v) = Cap(w, v)
    /\ Size(w2, v) = Size(w, v) + 1
    /\ At(w2, v, Size(w, v)) = x
    /\ \A b \in Blocks :
           /\ Len(w2.heap[b]) = Len(w.heap[b])
           /\ \A i \in 1..Len(w.heap[b]) :
                  \/ b = Buf(w, v) /\ i = Size(w, v) + 1
                  \/ w2.heap[b][i] = w.heap[b][i]
    /\ w2.dtor = w.dtor /\ w2.bad = w.bad
    /\ w2.rel = w.rel
    /\ EmplaceBackReturn(w2, v) = Ptr(Buf(w, v), Size(w, v))
    /\ wt.threw /\ wt.heap = w.heap /\ wt.vec = w.vec

RECURSIVE PushesStay(_, _, _)
PushesStay(w, v, xs) ==
    \/ xs = <<>>
    \/ /\ PushStays(w, EmplaceBack(Then(w, 0), v, Head(xs), DefaultValue),
                     EmplaceBack(Then(w, 1), v, Head(xs), DefaultValue),
                     v, Head(xs))
       /\ PushesStay(EmplaceBack(Then(w, 0), v, Head(xs), DefaultValue),
                     v, Tail(xs))

\* C10: after Reserve(n) on a vector of size s <= n, the pushes that keep the size
\* within max(n, the capacity before) never reallocate: block address and
\* Capacity() stay, and no element is moved, copied or destroyed.
C10_ReservedPushesStay ==
    \A v \in Vecs : vec[v].alive =>
        \A n \in Sizes, g \in Garbage(v) :
            vec[v].size_ <= n =>
                LET w == Reserve(Now, v, n, g)
                    room == Max(n, vec[v].capacity_) - vec[v].size_
                IN  /\ Cap(w, v) = Max(n, vec[v].capacity_)
                    /\ \A xs \in [1..room -> Values] : PushesStay(w, v, xs)

\* Reserve(3) on a full vector of one element, then two pushes into the room.
C10_Witness ==
    \E v \in Vecs :
        /\ WellFormed(Now, v)
        /\ vec[v].size_ = 1 /\ vec[v].capacity_ = 1
        /\ LET w  == Reserve(Now, v, 3, 1)
               w2 == EmplaceBack(EmplaceBack(w, v, 2, 1), v, 1, 1)
           IN  /\ Buf(w, v) # vec[v].buffer_
               /\ Buf(w2, v) = Buf(w, v) /\ Cap(w2, v) = 3
               /\ Elems(w2, v, 1) = Elems(Now, v, 1) \o <<2, 1>>


\* The objects other than v are in w as they are now.
OthersUntouched(w, v) == \A o \in Objs \ {v} : Untouched(w, o)

\* C11: Reserve(n) with n <= Capacity() changes nothing; with n > Capacity() it
\* returns with Capacity() = n, the size and the elements in their order
\* unchanged, in a new block, after one destructor call on each old element
\* and the release of the old block.
C11_ReserveMoves ==
    \A v \in Vecs : WellFormed(Now, v) =>
        \A n \in Sizes :
            LET w == Reserve(Now, v, n, DefaultValue)
                s == vec[v].size_
            IN  IF n <= vec[v].capacity_
                THEN /\ w.heap = heap /\ w.vec = vec
                     /\ w.dtor = 0 /\ w.rel = {} /\ w.ops = 0
                ELSE /\ ~w.threw
                     /\ Cap(w, v) = n
                     /\ Size(w, v) = s
                     /\ Elems(w, v, DefaultValue) = Elems(Now, v, DefaultValue)
                     /\ Buf(w, v) # Null /\ Buf(w, v) # vec[v].buffer_
                     /\ WellFormed(w, v)
                     /\ w.dtor = s /\ w.bad = 0 /\ w.lost = 0
                     /\ w.rel = {vec[v].buffer_} \ {Null}
                     /\ Orphans(w) = {}
                     /\ OthersUntouched(w, v)

\* Reserve(4) on a full vector of the elements 1, 2.
C11_Witness ==
    \E v \in Vecs :
        /\ WellFormed(Now, v)
        /\ vec[v].capacity_ = 2 /\ Elems(Now, v, 1) = <<1, 2>>
        /\ LET w == Reserve(Now, v, 4, 1)
           IN  /\ Cap(w, v) = 4 /\ Elems(w, v, 1) = <<1, 2>>
               /\ w.dtor = 2 /\ w.rel = {vec[v].buffer_}


\* What a call that threw after constructing c elements in the new block nb
\* leaves: the heap and the objects as they were, the c elements destroyed, no
\* object lost, no destructor run on a slot without an object, nb released.
RolledBack(w, c, nb) ==
    /\ w.threw
    /\ w.heap = heap /\ w.vec = vec
    /\ w.dtor = c /\ w.bad = 0 /\ w.lost = 0
    /\ w.rel = {nb} \ {Null}
    /\ Orphans(w) = {}

\* C12: when the k-th element constructor call throws in Vector(n), or in
\* Reserve on a type that is copied, the call leaves the state it found (no
\* vector, for the constructor), the k - 1 elements it constructed destroyed,
\* the new block released, no object lost and no destructor run on raw memory.
C12_ThrowRollsBack ==
    \A v \in Vecs :
        /\ ~vec[v].alive =>
              \A n \in Sizes, k \in 1..MaxSlots :
                  k <= n =>
                      RolledBack(VectorOfSize(World(k), v, n), k - 1,
                                 NewAddress(Now, n))
        /\ (WellFormed(Now, v) /\ T = "CopyFallback") =>
              \A n \in Sizes, k \in 1..MaxSlots :
                  (n > vec[v].capacity_ /\ k <= vec[v].size_) =>
                      RolledBack(Reserve(World(k), v, n, DefaultValue), k - 1,
                                 NewAddress(Now, n))

\* The second copy of Reserve(4) throws on a full vector of 1, 2, and the
\* third constructor call of Vector(3) throws.
C12_Witness ==
    \E v \in Vecs, u \in Vecs :
        /\ T = "CopyFallback"
        /\ WellFormed(Now, v) /\ ~vec[u].alive
        /\ vec[v].capacity_ = 2 /\ Elems(Now, v, 1) = <<1, 2>>
        /\ LET w == Reserve(World(2), v, 4, 1)
               c == VectorOfSize(World(3), u, 3)
           IN  /\ w.threw /\ w.dtor = 1 /\ Elems(w, v, 1) = <<1, 2>>
               /\ c.threw /\ c.dtor = 2 /\ ~c.vec[u].alive


\* What a call whose new element's constructor threw leaves: every block and
\* every object as it was, no destructor run, no object lost, no block leaked.
NothingDone(w) ==
    /\ w.threw
    /\ w.heap = heap /\ w.vec = vec
    /\ w.dtor = 0 /\ w.bad = 0 /\ w.lost = 0
    /\ Orphans(w) = {}
    /\ Undefined(w) = {}

\* C13: when the construction of the new element throws in PushBack/EmplaceBack
\* or in Emplace/Insert, in place or reallocating, the vector has its block, its
\* capacity, its size and its elements as before, none shifted, moved from or
\* destroyed.
C13_NewElementThrows ==
    \A v \in Vecs : vec[v].alive =>
        \A x \in Values, g \in Values :
            /\ NothingDone(EmplaceBack(World(1), v, x, g))
            /\ \A i \in Positions(v) : NothingDone(Emplace(World(1), v, i, x, g))

\* The constructor of the new element throws in an Insert into a full vector
\* and in one into a vector with room.
C13_Witness ==
    \E v \in Vecs, u \in Vecs :
        /\ WellFormed(Now, v) /\ WellFormed(Now, u)
        /\ vec[v].size_ = 2 /\ vec[v].capacity_ = 2
        /\ vec[u].size_ = 1 /\ vec[u].capacity_ = 2
        /\ LET w == Emplace(World(1), v, 1, 2, 1)
               r == Emplace(World(1), u, 0, 2, 1)
           IN  /\ w.threw /\ w.heap = heap /\ w.vec = vec
               /\ r.threw /\ r.heap = heap /\ r.vec = vec


\* The vector Vector(5), Resize(2), Resize(4) gives: its size, its capacity and
\* its elements after each call.
ResizeScenario(v) ==
    LET w1 == VectorOfSize(Now, v, 5)
        w2 == Resize(w1, v, 2, DefaultValue)
        w3 == Resize(w2, v, 4, DefaultValue)
        D  == DefaultValue
    IN  /\ Elems(w1, v, D) = <<D, D, D, D, D>> /\ WellFormed(w1, v)
        /\ Elems(w2, v, D) = <<D, D>> /\ WellFormed(w2, v)
        /\ Elems(w3, v, D) = <<D, D, D, D>> /\ WellFormed(w3, v)
        /\ Cap(w1, v) = 5 /\ Cap(w2, v) = 5 /\ Cap(w3, v) = 5
        /\ Buf(w3, v) = Buf(w1, v)
        /\ w3.dtor = 3 /\ w3.bad = 0 /\ w3.lost = 0

\* C14: Resize(n) on a vector of size s: for n < s it destroys the trailing
\* s - n elements and keeps the capacity and the block; for n >= s it reserves
\* capacity for n and value-constructs the slots [s, n); the result has size n,
\* the first min(s, n) elements as before and the elements [s, n) default.
C14_Resize ==
    \A v \in Vecs :
        /\ ~vec[v].alive => ResizeScenario(v)
        /\ WellFormed(Now, v) =>
              \A n \in Sizes :
                  LET w == Resize(Now, v, n, DefaultValue)
                      s == vec[v].size_
                  IN  /\ ~w.threw
                      /\ Size(w, v) = n
                      /\ WellFormed(w, v)
                      /\ \A i \in 0..(Min(s, n) - 1) : At(w, v, i) = At(Now, v, i)
                      /\ \A i \in s..(n - 1) : At(w, v, i) = DefaultValue
                      /\ w.bad = 0 /\ w.lost = 0 /\ Orphans(w) = {}
                      /\ OthersUntouched(w, v)
                      /\ IF n < s
                         THEN /\ w.dtor = s - n
                              /\ Cap(w, v) = vec[v].capacity_
                              /\ Buf(w, v) = vec[v].buffer_
                              /\ w.rel = {}
                         ELSE /\ Cap(w, v) = Max(n, vec[v].capacity_)
                              /\ w.dtor = IF n > vec[v].capacity_ THEN s ELSE 0
                              /\ n <= vec[v].capacity_ =>
                                     Buf(w, v) = vec[v].buffer_ /\ w.rel = {}

\* Resize(2) and then Resize(4) on a vector of three elements 2.
C14_Witness ==
    \E v \in Vecs :
        /\ WellFormed(Now, v)
        /\ Elems(Now, v, 1) = <<2, 2, 2>>
        /\ LET w2 == Resize(Now, v, 2, 1)
               w3 == Resize(w2, v, 4, 1)
           IN  /\ Elems(w2, v, 1) = <<2, 2>> /\ w2.dtor = 1
               /\ Elems(w3, v, 1) = <<2, 2, DefaultValue, DefaultValue>>


\* What a reallocating call leaves when its k-th throwing-capable element
\* operation, a copy of an existing element, threw: the k - 1 objects the call
\* constructed in the new block destroyed once each, none lost, the new block
\* released.
NewBlockCleaned(w, k, nb) ==
    /\ w.threw
    /\ w.dtor = k - 1 /\ w.bad = 0
    /\ w.lost = 0
    /\ nb \in w.rel
    /\ Orphans(w) = {}

\* C15: when PushBack/EmplaceBack or Emplace/Insert reallocates on a type that
\* is copied and the copy of an existing element throws, the new element and
\* every element already copied into the new block have been destroyed once
\* each, and the new block released, when the exception leaves the call.
C15_ReallocThrowCleansUp ==
    T = "CopyFallback" =>
        \A v \in Vecs :
            (WellFormed(Now, v) /\ vec[v].size_ = vec[v].capacity_) =>
                \A x \in Values, k \in 2..(vec[v].size_ + 1) :
                    LET nb == NewAddress(Now, GrownCapacity(vec[v].size_))
                    IN  /\ NewBlockCleaned(
                               EmplaceBack(World(k), v, x, DefaultValue), k, nb)
                        /\ \A i \in Positions(v) :
                               NewBlockCleaned(
                                   Emplace(World(k), v, i, x, DefaultValue), k, nb)


\* C16: when Emplace/Insert at capacity fails in copying the existing elements
\* into the new block, the new element is destroyed (with the copies the failed
\* std::uninitialized_copy_n made), the exception leaves the call, and the
\* vector keeps its block, capacity and size, every element in it as it was.
C16_EmplaceCopyFails ==
    T = "CopyFallback" =>
        \A v \in Vecs :
            (WellFormed(Now, v) /\ vec[v].size_ = vec[v].capacity_) =>
                \A x \in Values, i \in Positions(v), k \in 2..(vec[v].size_ + 1) :
                    LET w == Emplace(World(k), v, i, x, DefaultValue)
                    IN  /\ w.threw
                        /\ w.dtor = 1 + (IF k - 1 <= i THEN k - 2 ELSE k - 2 - i)
                        /\ w.bad = 0
                        /\ w.vec = vec
                        /\ w.heap = heap
                        /\ WellFormed(w, v)
                        /\ Undefined(w) = {}

\* The copy of the second element throws in an Insert at index 1 of a full
\* vector of 1, 2.
C16_Witness ==
    \E v \in Vecs :
        /\ T = "CopyFallback"
        /\ WellFormed(Now, v)
        /\ vec[v].capacity_ = 2 /\ Elems(Now, v, 1) = <<1, 2>>
        /\ LET w == Emplace(World(3), v, 1, 2, 1)
           IN  /\ w.threw /\ w.dtor = 1
               /\ Elems(w, v, 1) = <<1, 2>> /\ Buf(w, v) = vec[v].buffer_


\* The RawMemory members that hold block b.
Owners(w, b) == {o \in Objs : w.vec[o].buffer_ = b}

\* Every block that is allocated has one owner, no released block has one, no
\* block was released twice, and the destruction of every vector leaves no
\* block allocated.
RECURSIVE DestroyAll(_, _)
DestroyAll(w, S) ==
    IF S = {} THEN w
    ELSE LET o == CHOOSE c \in S : TRUE
         IN  DestroyAll(IF w.vec[o].alive THEN VectorDtor(w, o) ELSE w, S \ {o})

OwnedOnce(w) ==
    /\ \A b \in Blocks :
           IF w.heap[b] # <<>> THEN Cardinality(Owners(w, b)) = 1
           ELSE Owners(w, b) = {}
    /\ "double_free" \notin w.events
    /\ "double_free" \notin DestroyAll(w, Objs).events
    /\ \A b \in Blocks : DestroyAll(w, Objs).heap[b] = <<>>

\* C17: every block a RawMemory acquired has exactly one owner until it is
\* released, and is released exactly once: after any call, and after the
\* destruction of every vector that follows it.
C17_BlocksOwnedOnce ==
    /\ OwnedOnce(Now)
    /\ \A v \in Vecs : \A u \in Vecs \ {v} :
           /\ (vec[v].alive /\ vec[u].alive) =>
                 /\ OwnedOnce(MoveAssign(Now, v, u))
                 /\ OwnedOnce(Swap(Now, v, u))
                 /\ \A g \in Garbage(u) : OwnedOnce(CopyAssign(Now, v, u, g))
           /\ (~vec[v].alive /\ vec[u].alive) =>
                 /\ OwnedOnce(VectorMove(Now, v, u))
                 /\ \A g \in Garbage(u) : OwnedOnce(VectorCopy(Now, v, u, g))
    /\ \A v \in Vecs :
           IF vec[v].alive
           THEN /\ OwnedOnce(VectorDtor(Now, v))
                /\ \A n \in Sizes, g \in Garbage(v), k \in 0..1 :
                       /\ OwnedOnce(Reserve(World(k), v, n, g))
                       /\ OwnedOnce(Resize(World(k), v, n, g))
                /\ \A x \in Values, g \in Garbage(v), k \in 0..2 :
                       OwnedOnce(EmplaceBack(World(k), v, x, g))
           ELSE \A n \in Sizes, k \in 0..1 : OwnedOnce(VectorOfSize(World(k), v, n))


\* C18: an Emplace/Insert with begin() <= pos <= end() that takes the branch
\* size < capacity reads and moves from slots that hold objects only, and the
\* range it shifts has first <= last; so for size 0 with capacity > 0 and for
\* pos = end().
C18_EmplaceInPlaceReads ==
    \A v \in Vecs :
        (WellFormed(Now, v) /\ vec[v].size_ < vec[v].capacity_) =>
            \A i \in Positions(v), x \in Values, g \in Values :
                Undefined(Emplace(Now, v, i, x, g)) = {}


\* The capacity and the block of v after a call that added an element: the
\* capacity max(1, 2 * capacity) when the vector was full, else the capacity
\* and the block of before.
Grown(w, v) ==
    /\ ~w.threw
    /\ Size(w, v) = vec[v].size_ + 1
    /\ IF vec[v].size_ = vec[v].capacity_
       THEN /\ Cap(w, v) = Max(1, 2 * vec[v].capacity_)
            /\ Buf(w, v) # vec[v].buffer_
            /\ w.rel = {vec[v].buffer_} \ {Null}
       ELSE /\ Cap(w, v) = vec[v].capacity_
            /\ Buf(w, v) = vec[v].buffer_
            /\ w.rel = {}

\* From the empty vector: PushBack 1, 2, 3, Insert(1, 9), Erase(0), PopBack.
GrowthScenario(v) ==
    LET p1 == EmplaceBack(Now, v, 1, DefaultValue)
        p2 == EmplaceBack(p1, v, 2, DefaultValue)
        p3 == EmplaceBack(p2, v, 3, DefaultValue)
        i4 == Emplace(p3, v, 1, 9, DefaultValue)
        e5 == Erase(i4, v, 0, DefaultValue)
        p6 == PopBack(e5, v)
        D  == DefaultValue
    IN  /\ Cap(p1, v) = 1 /\ Cap(p2, v) = 2 /\ Cap(p3, v) = 4
        /\ Elems(p3, v, D) = <<1, 2, 3>>
        /\ Elems(i4, v, D) = <<1, 9, 2, 3>> /\ Buf(i4, v) = Buf(p3, v)
        /\ Elems(e5, v, D) = <<9, 2, 3>>
        /\ Elems(p6, v, D) = <<9, 2>>
        /\ Size(p6, v) = 2 /\ Cap(p6, v) = 4
        /\ WellFormed(p6, v) /\ Undefined(p6) = {}

\* C19: PushBack/EmplaceBack and Emplace/Insert with size = capacity grow the
\* capacity to max(1, 2 * capacity), and with size < capacity leave capacity and
\* block as they are; from an empty vector, PushBack 1, 2, 3, Insert(1, 9),
\* Erase(0), PopBack gives [9, 2] with size 2 and capacity 4.
C19_Growth ==
    \A v \in Vecs :
        /\ vec[v] = EmptyVector => GrowthScenario(v)
        /\ WellFormed(Now, v) =>
              \A x \in Values, g \in Values :
                  /\ Grown(EmplaceBack(Now, v, x, g), v)
                  /\ \A i \in Positions(v) : Grown(Emplace(Now, v, i, x, g), v)

\* A PushBack and an Insert on a full vector of two elements.
C19_Witness ==
    \E v \in Vecs :
        /\ WellFormed(Now, v)
        /\ vec[v].size_ = 2 /\ vec[v].capacity_ = 2
        /\ Cap(EmplaceBack(Now, v, 1, 1), v) = 4
        /\ Cap(Emplace(Now, v, 1, 2, 1), v) = 4
        /\ \E u \in Vecs : vec[u] = EmptyVector /\ GrowthScenario(u)


\* The element operations of Resize(n) on v that precede the first value
\* construction and may throw: the copies of Reserve, on a type that is copied.
CopiesBefore(v, n) ==
    IF n > vec[v].capacity_ /\ T = "CopyFallback" THEN vec[v].size_ ELSE 0

\* C20: when the k-th value construction of a growing Resize(n) throws, Size()
\* is as before, the elements [0, size) hold their objects with their values,
\* the k - 1 elements constructed in [size, n) have been destroyed, and no slot
\* at or beyond size holds an object.
C20_ResizeThrowKeepsSize ==
    \A v \in Vecs : WellFormed(Now, v) =>
        \A n \in Sizes, k \in 1..MaxSlots :
            (n > vec[v].size_ /\ k <= n - vec[v].size_) =>
                LET w == Resize(World(CopiesBefore(v, n) + k), v, n, DefaultValue)
                    s == vec[v].size_
                IN  /\ w.threw
                    /\ Size(w, v) = s
                    /\ Elems(w, v, DefaultValue) = Elems(Now, v, DefaultValue)
                    /\ WellFormed(w, v)
                    /\ Cap(w, v) = Max(n, vec[v].capacity_)
                    /\ w.dtor = k - 1 + (IF n > vec[v].capacity_ THEN s ELSE 0)
                    /\ w.bad = 0 /\ w.lost = 0 /\ Orphans(w) = {}
                    /\ OthersUntouched(w, v)

\* The second value construction of Resize(4) throws, on a vector of 2, 1 with
\* capacity 4 and on one with capacity 2.
C20_Witness ==
    \E v \in Vecs :
        /\ WellFormed(Now, v)
        /\ Elems(Now, v, 1) = <<2, 1>>
        /\ LET w == Resize(World(CopiesBefore(v, 4) + 2), v, 4, 1)
           IN  /\ w.threw /\ Size(w, v) = 2 /\ Cap(w, v) = 4
               /\ Elems(w, v, 1) = <<2, 1>>
               /\ ~Live(At(w, v, 2)) /\ ~Live(At(w, v, 3))

=============================================================================
